---- MODULE Spec2Model ----
(***************************************************************************)
(* A model of the state-lexer engine (package lexer, type L): the rune     *)
(* buffer with its start/position cursors, the rewind stack, the emission  *)
(* protocol, the three drivers (Scan, NextToken, NextTokens) and the       *)
(* grammar of the package's tests and README used as client code.          *)
(*                                                                         *)
(* Runes and bytes are integers.  A string is a sequence of runes.  A      *)
(* *Token is a sequence of length 0 (nil) or 1 (a pointer to a token).     *)
(***************************************************************************)
EXTENDS Integers, Sequences, FiniteSets, TLC

VARIABLES l, op, got, input

vars == <<l, op, got, input>>

(***************************************************************************)
(* Bounds of the model.                                                    *)
(***************************************************************************)
\* longest input, in bytes, of the cursor-level specification
MaxLen == 2
\* longest input, in bytes, of the driver-level specification
MaxInput == 3
\* deepest rewind stack the cursor-level specification lets Next build
MaxStack == 3
\* most state invocations one driver call (Scan, NextToken) may run
MaxInvoke == 8
\* most pull calls (NextToken, NextTokens) made on one engine
MaxCalls == 6
\* most tokens the cursor-level client emits to its callback
MaxEmit == 1

(***************************************************************************)
(* Program constants.                                                      *)
(***************************************************************************)
EOFRune == -1
\* unicode/utf8: RuneError (U+FFFD) and RuneSelf
RuneError == 65533
RuneSelf == 128
\* token kinds of the test grammar (iota) and of the README grammar
NumberToken == 0
OpToken == 1
IdentToken == 2
WsToken == 1

\* the nil state function and the nil *Token
NilState == "nil"
NilToken == <<>>
Ptr(t) == <<t>>

Token(t, v) == [Type |-> t, Value |-> v]

(***************************************************************************)
(* unicode/utf8 as the engine uses it.                                     *)
(***************************************************************************)
\* utf8.RuneLen: the number of bytes of the rune's encoding, -1 if invalid
RuneLen(r) ==
    IF r < 0 THEN -1
    ELSE IF r < RuneSelf THEN 1
    ELSE IF r < 2048 THEN 2
    ELSE IF r >= 55296 /\ r <= 57343 THEN -1
    ELSE IF r < 65536 THEN 3
    ELSE IF r <= 1114111 THEN 4
    ELSE -1

\* utf8.DecodeRune on the one-byte slice l.p: an ASCII byte is itself, any
\* other byte is an incomplete or invalid encoding: (RuneError, 1)
DecodeRune(b) ==
    IF b < RuneSelf THEN [r |-> b, s |-> 1] ELSE [r |-> RuneError, s |-> 1]

\* strings.ContainsRune(chars, r), chars a valid string
ContainsRune(chars, r) == \E i \in 1..Len(chars) : chars[i] = r

(***************************************************************************)
(* runeStack: push, pop (EOFRune when empty), clear.                       *)
(***************************************************************************)
newRuneStack == <<>>
push(s, r) == Append(s, r)
popRune(s) == IF s = <<>> THEN EOFRune ELSE s[Len(s)]
popRest(s) == IF s = <<>> THEN <<>> ELSE SubSeq(s, 1, Len(s) - 1)
clear(s) == <<>>

(***************************************************************************)
(* New.  src is the content of the io.Reader; th, eh are the values the    *)
(* client stores in the exported fields TokenHandler and ErrorHandler.     *)
(* slack is a property of the build: whether the capacity of buf's backing *)
(* array reaches position in a state where position > len(buf).           *)
(* lastTokens is the content of the slice l.lastTokens; the slice itself is *)
(* the window of length Len(lastTokens) at offset ltOff of the array        *)
(* arrays[ltArr] (ltArr = 0: the nil slice, which has no array), arrays     *)
(* being the []*Token arrays allocated so far, each as long as its          *)
(* capacity.  handed lists the slices NextTokens returned, which the client *)
(* holds: array, offset and length.                                         *)
(* delivered and errCalls record what the handlers were called with,       *)
(* closed is the concatenation of the spans closed so far (the values of    *)
(* the tokens emitted, the spans ignored),                                  *)
(* raised the messages Error was called with; ninv, lastInv and lastNext   *)
(* record the state invocations (how many, the last state invoked, what it *)
(* returned); events lists, in the order they happened, the calls of state *)
(* functions, the calls of a token handler and the returns of state        *)
(* functions; panicked is set when the goroutine has panicked.             *)
(***************************************************************************)
New(src, start, th, eh, slack) ==
    [ source       |-> src,
      startState   |-> start,
      buf          |-> <<>>,
      start        |-> 0,
      position     |-> 0,
      readbytes    |-> 0,
      rewind       |-> newRuneStack,
      Err          |-> <<>>,
      TokenHandler |-> th,
      ErrorHandler |-> eh,
      hasNext      |-> FALSE,
      nextState    |-> NilState,
      lastTokens   |-> <<>>,
      ltArr        |-> 0,
      ltOff        |-> 0,
      arrays       |-> <<>>,
      handed       |-> <<>>,
      delivered    |-> <<>>,
      closed       |-> <<>>,
      errCalls     |-> 0,
      raised       |-> <<>>,
      events       |-> <<>>,
      ninv         |-> 0,
      lastInv      |-> NilState,
      lastNext     |-> NilState,
      slack        |-> slack,
      panicked     |-> FALSE ]

Panic(e) == [e EXCEPT !.panicked = TRUE]

\* an entry of events: kind is "call" (of state), "token" (tok handed to the
\* handler) or "ret" (a state function returned state)
Event(kind, state, tok) == [kind |-> kind, state |-> state, tok |-> tok]

Zeros(n) == [i \in 1..n |-> 0]

\* The element of a one-element set.  Only({F(x) : x \in {v}}) is F(v) with v
\* evaluated once: it is how the definitions below name an intermediate
\* result (the engine after a call) that the rest of the body reads.
Only(S) == CHOOSE x \in S : TRUE

\* the slice expression buf[start:position] panics
CurrentPanics(e) ==
    \/ e.start > e.position
    \/ e.position > Len(e.buf) /\ ~e.slack

\* Current: string(l.buf[l.start:l.position]); past len(buf) the backing
\* array holds zero values
Current(e) ==
    IF e.position <= Len(e.buf)
    THEN SubSeq(e.buf, e.start + 1, e.position)
    ELSE SubSeq(e.buf, e.start + 1, Len(e.buf)) \o Zeros(e.position - Len(e.buf))

\* a slice value: the window of length len at offset off of arrays[arr]
Slice(arr, off, len) == [arr |-> arr, off |-> off, len |-> len]

\* the content of slice s in engine e
View(e, s) ==
    IF s.arr = 0 THEN <<>>
    ELSE SubSeq(e.arrays[s.arr], s.off + 1, s.off + s.len)

\* cap(l.lastTokens)
Cap(e) == IF e.ltArr = 0 THEN 0 ELSE Len(e.arrays[e.ltArr]) - e.ltOff

\* the capacity append gives the new array when one more element does not
\* fit in capacity c (runtime.growslice, pointer elements, small slices)
GrowCap(c) == IF c = 0 THEN 1 ELSE 2 * c

\* l.lastTokens = append(l.lastTokens, p): in place when the capacity
\* allows, else into a new array that receives a copy of the elements
appendTokens(e, p) ==
    IF Len(e.lastTokens) < Cap(e)
    THEN [e EXCEPT !.lastTokens = Append(@, p),
                   !.arrays[e.ltArr][e.ltOff + Len(e.lastTokens) + 1] = p]
    ELSE [e EXCEPT !.lastTokens = Append(@, p),
                   !.arrays = Append(@, e.lastTokens \o <<p>> \o
                                 [i \in 1..(GrowCap(Cap(e)) - Len(e.lastTokens) - 1)
                                     |-> NilToken]),
                   !.ltArr = Len(e.arrays) + 1,
                   !.ltOff = 0]

\* l.TokenHandler(tok) with the handler the engine holds: the collecting
\* closure of the pull drivers appends &t to lastTokens, a client callback
\* receives the token; delivered lists every token handed to a handler
Deliver(e, tok) ==
    IF e.TokenHandler = "collect"
    THEN [appendTokens(e, Ptr(tok)) EXCEPT
                   !.delivered = Append(@, tok),
                   !.events = Append(@, Event("token", NilState, Ptr(tok)))]
    ELSE IF e.TokenHandler = "callback"
    THEN [e EXCEPT !.delivered = Append(@, tok),
                   !.events = Append(@, Event("token", NilState, Ptr(tok)))]
    ELSE e

\* the span given out as a token's value, or ignored
Close(e, span) == [e EXCEPT !.closed = @ \o span]

\* Emit without its rewind.clear()
EmitKeepsRewind(l0, t) ==
    Only({ IF e.panicked THEN e
           ELSE IF CurrentPanics(e) THEN Panic(e)
           ELSE IF e.position > Len(e.buf)
           THEN Panic(IF e.TokenHandler = "nil" THEN e
                      ELSE Close(Deliver(e, Token(t, Current(e))), Current(e)))
           ELSE [Close(Deliver(e, Token(t, Current(e))), Current(e)) EXCEPT
                    !.buf = SubSeq(@, e.position + 1, Len(@)),
                    !.start = 0,
                    !.position = 0]
           : e \in {l0} })

\* the slice expression l.buf[l.position:] panics past len(buf)
Emit(l0, t) ==
    Only({ IF e.panicked THEN e
           ELSE IF CurrentPanics(e) THEN Panic(e)
           ELSE IF e.position > Len(e.buf)
           THEN Panic(IF e.TokenHandler = "nil" THEN e
                      ELSE Close(Deliver(e, Token(t, Current(e))), Current(e)))
           ELSE [Close(Deliver(e, Token(t, Current(e))), Current(e)) EXCEPT
                    !.buf = SubSeq(@, e.position + 1, Len(@)),
                    !.start = 0,
                    !.position = 0,
                    !.rewind = clear(@)]
           : e \in {l0} })

Ignore(l0) ==
    Only({ IF e.panicked THEN e
           ELSE IF e.position > Len(e.buf) THEN Panic(e)
           ELSE [Close(e, Current(e)) EXCEPT
                          !.rewind = clear(@),
                          !.buf = SubSeq(@, e.position + 1, Len(@)),
                          !.start = 0,
                          !.position = 0]
           : e \in {l0} })

ReadBytes(e) == e.readbytes

Rewind(l0) ==
    Only({ IF e.panicked THEN e
           ELSE LET r == popRune(e.rewind)
                    p == e.position - RuneLen(r)
                IN IF r > EOFRune
                   THEN [e EXCEPT !.rewind = popRest(@),
                                  !.position = IF p < e.start THEN e.start ELSE p]
                   ELSE [e EXCEPT !.rewind = popRest(@)]
           : e \in {l0} })

\* Next that does not push the end-of-stream marker on the rewind stack
NextNoMarker(l0) ==
    Only({ IF e.panicked THEN [l |-> e, r |-> EOFRune]
           ELSE IF e.position < Len(e.buf)
           THEN LET r == e.buf[e.position + 1]
                IN [l |-> [e EXCEPT !.position = @ + RuneLen(r),
                                    !.rewind = push(@, r)],
                    r |-> r]
           ELSE IF e.source = <<>>
           THEN [l |-> e, r |-> EOFRune]
           ELSE LET d == DecodeRune(Head(e.source))
                IN [l |-> [e EXCEPT !.source = Tail(@),
                                    !.readbytes = @ + 1,
                                    !.buf = Append(@, d.r),
                                    !.position = @ + d.s,
                                    !.rewind = push(@, d.r)],
                    r |-> d.r]
           : e \in {l0} })

\* Next returns the engine after the call (l) and the rune (r)
Next(l0) ==
    Only({ IF e.panicked THEN [l |-> e, r |-> EOFRune]
           ELSE IF e.position < Len(e.buf)
           THEN LET r == e.buf[e.position + 1]
                IN [l |-> [e EXCEPT !.position = @ + RuneLen(r),
                                    !.rewind = push(@, r)],
                    r |-> r]
           ELSE IF e.source = <<>>
           THEN [l |-> [e EXCEPT !.rewind = push(@, EOFRune)], r |-> EOFRune]
           ELSE LET d == DecodeRune(Head(e.source))
                IN [l |-> [e EXCEPT !.source = Tail(@),
                                    !.readbytes = @ + 1,
                                    !.buf = Append(@, d.r),
                                    !.position = @ + d.s,
                                    !.rewind = push(@, d.r)],
                    r |-> d.r]
           : e \in {l0} })

Peek(l0) ==
    Only({ [l |-> Rewind(n.l), r |-> n.r] : n \in {Next(l0)} })

\* r := l.Next(); for strings.ContainsRune(chars, r) { r = l.Next() }
RECURSIVE TakeLoop(_, _)
TakeLoop(n0, chars) ==
    Only({ IF ContainsRune(chars, n.r) THEN TakeLoop(Next(n.l), chars) ELSE n.l
           : n \in {n0} })

\* Take without the Rewind of the code point that was not a match
TakeNoRewind(l0, chars) == TakeLoop(Next(l0), chars)

Take(l0, chars) == Rewind(TakeLoop(Next(l0), chars))

\* fmt.Sprintf("unexpected token %q", r)
Unexpected(r) == <<"unexpected token", r>>

\* Error that returns to its caller when no handler is registered
ErrorSilent(l0, msg) ==
    Only({ IF e.panicked THEN e
           ELSE IF e.ErrorHandler
           THEN [e EXCEPT !.Err = msg, !.errCalls = @ + 1, !.raised = Append(@, msg)]
           ELSE [e EXCEPT !.raised = Append(@, msg)]
           : e \in {l0} })

Error(l0, msg) ==
    Only({ IF e.panicked THEN e
           ELSE IF e.ErrorHandler
           THEN [e EXCEPT !.Err = msg, !.errCalls = @ + 1, !.raised = Append(@, msg)]
           ELSE Panic([e EXCEPT !.raised = Append(@, msg)])
           : e \in {l0} })

(***************************************************************************)
(* Client code: the state functions of the package's tests (NumberState,   *)
(* IdentState, WhitespaceState) and of the README (ReadmeNumberState).  A  *)
(* state function returns the engine after the call (l) and the next state *)
(* (next).                                                                 *)
(***************************************************************************)
\* "0123456789" and " \t\n\r"
Digits == <<48, 49, 50, 51, 52, 53, 54, 55, 56, 57>>
Space == <<32, 9, 10, 13>>
isWhitespace(r) == r = 32 \/ r = 9 \/ r = 10 \/ r = 13
isIdentRune(r) == (r >= 97 /\ r <= 122) \/ r = 95

NumberState(l0) ==
    Only({ IF p.r = 46
           THEN [l |-> Emit(Next(p.l).l, OpToken), next |-> "IdentState"]
           ELSE [l |-> p.l, next |-> NilState]
           : p \in {Peek(Emit(Take(l0, Digits), NumberToken))} })

RECURSIVE IdentLoop(_)
IdentLoop(n0) ==
    Only({ IF isIdentRune(n.r) THEN IdentLoop(Next(n.l)) ELSE n.l : n \in {n0} })

IdentState(l0) ==
    [l |-> Emit(Rewind(IdentLoop(Next(l0))), IdentToken), next |-> "WhitespaceState"]

WhitespaceState(l0) ==
    Only({ IF n.r = EOFRune THEN [l |-> n.l, next |-> NilState]
           ELSE IF ~isWhitespace(n.r)
           THEN [l |-> Error(n.l, Unexpected(n.r)), next |-> NilState]
           ELSE [l |-> Ignore(Take(n.l, Space)), next |-> "NumberState"]
           : n \in {Next(l0)} })

\* the README's loop: eof tells that it ended on the end-of-stream marker
RECURSIVE ReadmeWsLoop(_)
ReadmeWsLoop(n0) ==
    Only({ IF isWhitespace(n.r)
           THEN Only({ IF m.r = EOFRune THEN [l |-> m.l, eof |-> TRUE]
                       ELSE ReadmeWsLoop(m)
                       : m \in {Next(n.l)} })
           ELSE [l |-> n.l, eof |-> FALSE]
           : n \in {n0} })

ReadmeNumberState(l0) ==
    Only({ IF w.eof
           THEN [l |-> Emit(w.l, WsToken), next |-> NilState]
           ELSE [l |-> Emit(Take(Emit(Rewind(w.l), WsToken), Digits), NumberToken),
                 next |-> "ReadmeNumberState"]
           : w \in {ReadmeWsLoop(Next(l0))} })

StateFuncs == {"NumberState", "IdentState", "WhitespaceState", "ReadmeNumberState"}

\* state(l): the call of a state function value; calling nil panics
Called(l0, state) == [l0 EXCEPT !.events = Append(@, Event("call", state, NilToken))]

Invoke(state, l0) ==
    Only({ [l |-> [r.l EXCEPT !.ninv = @ + 1, !.lastInv = state, !.lastNext = r.next,
                              !.events = IF r.l.panicked THEN @
                                         ELSE Append(@, Event("ret", r.next, NilToken))],
            next |-> r.next]
           : r \in { IF state = "NumberState" THEN NumberState(Called(l0, state))
                     ELSE IF state = "IdentState" THEN IdentState(Called(l0, state))
                     ELSE IF state = "WhitespaceState" THEN WhitespaceState(Called(l0, state))
                     ELSE IF state = "ReadmeNumberState"
                     THEN ReadmeNumberState(Called(l0, state))
                     ELSE [l |-> Panic(l0), next |-> NilState] } })

(***************************************************************************)
(* The drivers.  A pull driver returns the engine after the call (l) and   *)
(* the value returned (ret); it returns nothing when the call panicked.    *)
(***************************************************************************)
\* if l.hasNext == false { ... }: the start of a pull sequence
BeginPull(l0) ==
    Only({ IF e.hasNext = FALSE
           THEN [e EXCEPT !.TokenHandler = "collect",
                          !.lastTokens = <<>>,
                          !.nextState = e.startState,
                          !.hasNext = TRUE]
           ELSE e
           : e \in {l0} })

\* state := l.nextState; l.nextState = state(l)
Advance(l0) ==
    Only({ IF r.l.panicked THEN r.l ELSE [r.l EXCEPT !.nextState = r.next]
           : r \in {Invoke(l0.nextState, l0)} })

\* NextTokens that leaves the pull sequence in progress at the end
NextTokensNoReset(l0) ==
    Only({ IF e.panicked THEN [l |-> e, ret |-> <<>>]
           ELSE IF e.nextState = NilState
           THEN [l |-> [e EXCEPT !.lastTokens = <<>>,
                                 !.arrays = Append(@, <<NilToken>>),
                                 !.handed = Append(@, Slice(Len(e.arrays) + 1, 0, 1))],
                 ret |-> <<NilToken>>]
           ELSE [l |-> [e EXCEPT !.lastTokens = <<>>,
                                 !.handed = Append(@, Slice(e.ltArr, e.ltOff,
                                                            Len(e.lastTokens)))],
                 ret |-> e.lastTokens]
           : e \in {Advance(BeginPull(l0))} })

\* the batch returned is []*Token{nil}, a new array, or l.lastTokens[:], the
\* same window of the same array as l.lastTokens
NextTokens(l0) ==
    Only({ IF e.panicked THEN [l |-> e, ret |-> <<>>]
           ELSE IF e.nextState = NilState
           THEN [l |-> [e EXCEPT !.lastTokens = <<>>,
                                 !.nextState = e.startState,
                                 !.hasNext = FALSE,
                                 !.arrays = Append(@, <<NilToken>>),
                                 !.handed = Append(@, Slice(Len(e.arrays) + 1, 0, 1))],
                 ret |-> <<NilToken>>]
           ELSE [l |-> [e EXCEPT !.lastTokens = <<>>,
                                 !.handed = Append(@, Slice(e.ltArr, e.ltOff,
                                                            Len(e.lastTokens)))],
                 ret |-> e.lastTokens]
           : e \in {Advance(BeginPull(l0))} })

\* for l.nextState != nil { ...; if len(l.lastTokens) > 0 { break } }
RECURSIVE NextTokenLoop(_)
NextTokenLoop(l0) ==
    Only({ IF e.nextState = NilState \/ e.panicked THEN e
           ELSE Only({ IF Len(e2.lastTokens) > 0 THEN e2 ELSE NextTokenLoop(e2)
                       : e2 \in {Advance(e)} })
           : e \in {l0} })

\* the end marker replaces the queue, as in NextTokens
QueueEndDropping(e) ==
    IF e.nextState = NilState
    THEN appendTokens([e EXCEPT !.lastTokens = <<>>], NilToken)
    ELSE e

\* the end marker is queued in front
QueueEndFirst(e) ==
    IF e.nextState = NilState
    THEN [e EXCEPT !.lastTokens = <<NilToken>> \o @]
    ELSE e

\* if l.nextState == nil { l.lastTokens = append(l.lastTokens, nil) }
QueueEnd(e) ==
    IF e.nextState = NilState
    THEN appendTokens(e, NilToken)
    ELSE e

\* the queue read from its other end
PopLast(e) ==
    IF Len(e.lastTokens) > 0
    THEN [l |-> [e EXCEPT !.lastTokens = SubSeq(@, 1, Len(@) - 1)],
          ret |-> e.lastTokens[Len(e.lastTokens)]]
    ELSE [l |-> e, ret |-> NilToken]

\* if len(l.lastTokens) > 0 { ret = l.lastTokens[0]; l.lastTokens = l.lastTokens[1:] }
PopFirst(e) ==
    IF Len(e.lastTokens) > 0
    THEN [l |-> [e EXCEPT !.lastTokens = Tail(@), !.ltOff = @ + 1],
          ret |-> Head(e.lastTokens)]
    ELSE [l |-> e, ret |-> NilToken]

NextToken(l0) ==
    Only({ IF Len(e.lastTokens) > 0
           THEN PopFirst(e)
           ELSE Only({ IF e2.panicked THEN [l |-> e2, ret |-> NilToken]
                       ELSE PopFirst(QueueEnd(e2))
                       : e2 \in {NextTokenLoop(e)} })
           : e \in {BeginPull(l0)} })

\* for state != nil { state = state(l) }, cut after n invocations: returned
\* tells that the loop ended by itself
RECURSIVE ScanLoop(_, _, _)
ScanLoop(l0, state, n) ==
    Only({ IF e.panicked THEN [l |-> e, returned |-> FALSE]
           ELSE IF state = NilState THEN [l |-> e, returned |-> TRUE]
           ELSE IF n = 0 THEN [l |-> e, returned |-> FALSE]
           ELSE Only({ ScanLoop(r.l, r.next, n - 1) : r \in {Invoke(state, e)} })
           : e \in {l0} })

\* Scan that returns after the first state invocation
ScanFirstOnly(e) ==
    Only({ IF e.startState = NilState THEN [l |-> f, returned |-> TRUE]
           ELSE Only({ [l |-> r.l, returned |-> ~r.l.panicked]
                       : r \in {Invoke(e.startState, f)} })
           : f \in {[e EXCEPT !.TokenHandler = "callback"]} })

\* Scan(f), f a callback of the client that keeps what it is given
Scan(e) ==
    ScanLoop([e EXCEPT !.TokenHandler = "callback"], e.startState, MaxInvoke)

(***************************************************************************)
(* The cursor-level specification: a client that holds an engine built     *)
(* with no start state and calls its cursor and emission operations in any *)
(* order.                                                                  *)
(***************************************************************************)
EngineBytes == {49, 97, 195}
Kinds == {NumberToken, OpToken}
\* the strings the cursor-level client gives to Take
TakeSets == {Digits}

RECURSIVE SeqsUpTo(_, _)
SeqsUpTo(S, n) ==
    IF n = 0 THEN {<<>>}
    ELSE LET shorter == SeqsUpTo(S, n - 1)
         IN shorter \cup {Append(s, x) : s \in {t \in shorter : Len(t) = n - 1}, x \in S}

Call(name, arg, ret) == [name |-> name, arg |-> arg, ret |-> ret]

Init ==
    /\ input \in SeqsUpTo(EngineBytes, MaxLen)
    /\ \E th \in {"nil", "callback"}, slack \in BOOLEAN :
           l = New(input, NilState, th, FALSE, slack)
    /\ op = Call("New", <<>>, <<>>)
    /\ got = <<>>

Alive == ~l.panicked

CallNext ==
    /\ Alive
    /\ Len(l.rewind) < MaxStack
    /\ l' = Next(l).l
    /\ op' = Call("Next", <<>>, <<Next(l).r>>)
    /\ UNCHANGED <<got, input>>

CallRewind ==
    /\ Alive
    /\ l' = Rewind(l)
    /\ op' = Call("Rewind", <<>>, <<>>)
    /\ UNCHANGED <<got, input>>

CallPeek ==
    /\ Alive
    /\ l' = Peek(l).l
    /\ op' = Call("Peek", <<>>, <<Peek(l).r>>)
    /\ UNCHANGED <<got, input>>

CallTake ==
    /\ Alive
    /\ \E chars \in TakeSets :
          /\ Len(Take(l, chars).rewind) <= MaxStack
          /\ l' = Take(l, chars)
          /\ op' = Call("Take", chars, <<>>)
    /\ UNCHANGED <<got, input>>

CallCurrent ==
    /\ Alive
    /\ l' = IF CurrentPanics(l) THEN Panic(l) ELSE l
    /\ op' = Call("Current", <<>>, IF CurrentPanics(l) THEN <<>> ELSE <<Current(l)>>)
    /\ UNCHANGED <<got, input>>

CallEmit ==
    /\ Alive
    /\ Len(l.delivered) < MaxEmit
    /\ \E t \in Kinds :
          /\ l' = Emit(l, t)
          /\ op' = Call("Emit", t, <<>>)
    /\ UNCHANGED <<got, input>>

CallIgnore ==
    /\ Alive
    /\ l' = Ignore(l)
    /\ op' = Call("Ignore", <<>>, <<>>)
    /\ UNCHANGED <<got, input>>

Step ==
    \/ CallNext
    \/ CallRewind
    \/ CallPeek
    \/ CallTake
    \/ CallCurrent
    \/ CallEmit
    \/ CallIgnore

Spec == Init /\ [][Step]_vars

(***************************************************************************)
(* The driver-level specification: a client that builds an engine over an  *)
(* input with a start state and consumes it in one of the three modes:     *)
(* one Scan, or NextToken calls, or NextTokens calls.  got lists the calls *)
(* that returned, with their results.                                      *)
(***************************************************************************)
GrammarBytes == {49, 46, 97, 32, 195}

Returned(name, ret) == [call |-> name, ret |-> ret]

\* "123.hello  675.world", the input of Test_MultipleTokens
ScenarioInput ==
    <<49, 50, 51, 46, 104, 101, 108, 108, 111, 32, 32,
      54, 55, 53, 46, 119, 111, 114, 108, 100>>

InitDrive ==
    /\ input \in SeqsUpTo(GrammarBytes, MaxInput) \cup {ScenarioInput}
    /\ \E start \in StateFuncs \cup {NilState}, eh \in BOOLEAN, slack \in BOOLEAN :
           l = New(input, start, "nil", eh, slack)
    /\ op = Call("New", <<>>, <<>>)
    /\ got = <<>>

Mode == IF got = <<>> THEN "none" ELSE got[1].call

CallScan ==
    /\ Alive
    /\ Mode = "none"
    /\ Scan(l).returned \/ Scan(l).l.panicked
    /\ l' = Scan(l).l
    /\ op' = Call("Scan", <<>>, <<>>)
    /\ got' = IF Scan(l).returned THEN Append(got, Returned("Scan", <<>>)) ELSE got
    /\ UNCHANGED input

CallNextToken ==
    /\ Alive
    /\ Mode \in {"none", "NextToken"}
    /\ Len(got) < MaxCalls
    /\ l' = NextToken(l).l
    /\ op' = Call("NextToken", <<>>, <<>>)
    /\ got' = IF l'.panicked THEN got
              ELSE Append(got, Returned("NextToken", NextToken(l).ret))
    /\ UNCHANGED input

CallNextTokens ==
    /\ Alive
    /\ Mode \in {"none", "NextTokens"}
    /\ Len(got) < MaxCalls
    /\ l' = NextTokens(l).l
    /\ op' = Call("NextTokens", <<>>, <<>>)
    /\ got' = IF l'.panicked THEN got
              ELSE Append(got, Returned("NextTokens", NextTokens(l).ret))
    /\ UNCHANGED input

StepDrive ==
    \/ CallScan
    \/ CallNextToken
    \/ CallNextTokens

SpecDrive == InitDrive /\ [][StepDrive]_vars

(***************************************************************************)
(* Properties of the cursor-level specification (Spec).                    *)
(***************************************************************************)
\* the code points of a rewind stack: its entries but the end-of-stream markers
RealRunes(s) == SelectSeq(s, LAMBDA r : r # EOFRune)

Last(s) == s[Len(s)]

Front(s) == SubSeq(s, 1, Len(s) - 1)

RECURSIVE RewindN(_, _)
RewindN(e, k) == IF k = 0 THEN e ELSE RewindN(Rewind(e), k - 1)

\* C6: in every reachable state 0 <= start <= position <= len(buffer), so
\* that Current() is always defined.
C6_CursorsInBuffer ==
    /\ 0 <= l.start
    /\ l.start <= l.position
    /\ l.position <= Len(l.buf)

\* C7: in every reachable state the code points on the rewind stack are
\* exactly the consumed span buf[start:position], in consumption order, and
\* position is never below start.
C7_RewindStackIsConsumedSpan ==
    /\ l.start <= l.position
    /\ RealRunes(l.rewind) = Current(l)

\* one step of the property below
C8_AfterBoundaryStep ==
    /\ (op'.name \in {"Emit", "Ignore"} /\ ~l'.panicked) =>
          /\ l'.start = 0
          /\ l'.position = 0
          /\ l'.rewind = <<>>
          /\ ~CurrentPanics(l')
          /\ Current(l') = <<>>
          /\ l'.buf = SubSeq(l.buf, l.position + 1, Len(l.buf))
          /\ \A k \in 1..(MaxStack + 1) :
                /\ RewindN(l', k).position = l'.position
                /\ Current(RewindN(l', k)) = <<>>
                /\ RewindN(l', k).buf = l'.buf
    /\ op'.name = "Rewind" =>
          /\ l'.buf = l.buf
          /\ l'.start = l.start
          /\ l'.position >= l'.start
          /\ l'.position <= l.position

\* C8: right after an Emit or an Ignore start = position = 0, the rewind
\* stack is empty, Current() is empty and the emitted span is gone from the
\* buffer; any number of Rewind calls from there leave position, Current()
\* and the buffer as they are; and no Rewind ever changes the buffer or start
\* or moves position below start, so no dropped code point comes back.
C8_EmissionBoundary == [][C8_AfterBoundaryStep]_vars

\* an Emit of a non-empty span that left lookahead in the buffer
C8_Witness ==
    /\ op.name = "Emit"
    /\ ~l.panicked
    /\ l.delivered # <<>>
    /\ Last(l.delivered).Value # <<>>
    /\ l.buf # <<>>

\* one step of the property below
C9_EmitDeliversStep ==
    /\ (op'.name = "Emit" /\ l.TokenHandler # "nil") =>
          l'.delivered = Append(l.delivered, Token(op'.arg, Current(l)))
    /\ op'.name = "Ignore" => l'.delivered = l.delivered

\* C9: every Emit(kind) hands exactly one token to the active sink, of the
\* given kind and with the value Current() had before the call (an empty
\* value for an empty span); Ignore hands over none.
C9_EmitDelivers == [][C9_EmitDeliversStep]_vars

\* C10: Peek changes neither Current() nor the byte counter.
C10_PeekFrame ==
    [][op'.name = "Peek" =>
          /\ Current(l') = Current(l)
          /\ ReadBytes(l') = ReadBytes(l)]_vars

\* the code points the source's remaining bytes decode to, one Read each
RECURSIVE Decoded(_)
Decoded(src) ==
    IF src = <<>> THEN <<>> ELSE <<DecodeRune(Head(src)).r>> \o Decoded(Tail(src))

\* the code points not yet consumed: the buffered ones at or after position,
\* then those still in the source
Upcoming(e) == SubSeq(e.buf, e.position + 1, Len(e.buf)) \o Decoded(e.source)

\* the longest prefix of s whose code points are all in chars
RECURSIVE MemberRun(_, _)
MemberRun(s, chars) ==
    IF s # <<>> /\ ContainsRune(chars, Head(s))
    THEN <<Head(s)>> \o MemberRun(Tail(s), chars)
    ELSE <<>>

\* the code point after the first n upcoming ones, the end-of-stream marker
\* when there is none
RuneAfter(e, n) ==
    IF n < Len(Upcoming(e)) THEN Upcoming(e)[n + 1] ELSE EOFRune

\* one step of the property below
C11_TakeStep ==
    op'.name = "Take" =>
        /\ ~CurrentPanics(l')
        /\ Current(l') = Current(l) \o MemberRun(Upcoming(l), op'.arg)
        /\ Next(l').r = RuneAfter(l, Len(MemberRun(Upcoming(l), op'.arg)))

\* C11: Take(set) consumes the longest run of upcoming code points that are
\* all in set (empty, or up to the end of the stream): Current() afterwards is
\* Current() before followed by that run, and the next Next() returns the
\* first code point that is not in set (the end-of-stream marker if none).
C11_TakeMaximalRun == [][C11_TakeStep]_vars

\* k calls of Next: the engine after them (l) and what they returned (rs)
RECURSIVE NextN(_, _)
NextN(l0, k) ==
    IF k = 0 THEN [l |-> l0, rs |-> <<>>]
    ELSE Only({ Only({ [l |-> m.l, rs |-> <<n.r>> \o m.rs] : m \in {NextN(n.l, k - 1)} })
                : n \in {Next(l0)} })

\* from engine e: k calls of Next (a), k calls of Rewind (b), k calls of Next (c)
NextRewindNext(e, k) ==
    Only({ Only({ [a |-> a, b |-> b, c |-> NextN(b, k)] : b \in {RewindN(a.l, k)} })
           : a \in {NextN(e, k)} })

RoundTripHolds(e, k) ==
    Only({ (\A i \in 1..k : t.a.rs[i] # EOFRune) =>
               /\ t.b.position = e.position
               /\ Current(t.b) = Current(e)
               /\ t.c.rs = t.a.rs
               /\ ReadBytes(t.c.l) = ReadBytes(t.a.l)
           : t \in {NextRewindNext(e, k)} })

\* C12: from every reachable state and for every k >= 1, k calls of Next that
\* return code points followed by k calls of Rewind bring position and
\* Current() back to what they were, and k more calls of Next return the same
\* code points in the same order with the byte counter unchanged.
C12_RewindRestores ==
    Alive => \A k \in 1..MaxStack : RoundTripHolds(l, k)

\* one step of the property below
C13_EndOfStreamStep ==
    (op'.name = "Next" /\ l.position >= Len(l.buf) /\ l.source = <<>>) =>
        /\ op'.ret = <<EOFRune>>
        /\ l'.buf = l.buf
        /\ l'.start = l.start
        /\ l'.position = l.position
        /\ Current(l') = Current(l)
        /\ ReadBytes(l') = ReadBytes(l)
        /\ l'.rewind = Append(l.rewind, EOFRune)
        /\ Rewind(l') = l

\* C13: a Next call that finds no unread buffered code point and an exhausted
\* source returns the end-of-stream marker and leaves the buffer, the cursors,
\* Current() and the byte counter alone; it pushes the marker on the rewind
\* stack, so that the Rewind that follows only takes the marker off: the
\* engine is again as it was before that Next, the last code point still
\* consumed.
C13_NextAtEndOfStream == [][C13_EndOfStreamStep]_vars

\* the end-of-stream marker returned after a code point was consumed
C13_Witness ==
    /\ op.name = "Next"
    /\ op.ret = <<EOFRune>>
    /\ l.position > 0
    /\ l.position = Len(l.buf)
    /\ Len(l.rewind) >= 2
    /\ Last(l.rewind) = EOFRune
    /\ l.rewind[Len(l.rewind) - 1] # EOFRune

\* the lookahead of engine e, read back by as many Next calls as it has code
\* points, and one Next call more
ReadBack(e) == NextN(e, Len(e.buf) + 1)

\* one step of the property below
C19_LookaheadStep ==
    (op'.name \in {"Emit", "Ignore"} /\ ~l'.panicked) =>
        /\ l'.buf = SubSeq(l.buf, l.position + 1, Len(l.buf))
        /\ l'.source = l.source
        /\ ReadBytes(l') = ReadBytes(l)
        /\ Front(ReadBack(l').rs) = l'.buf
        /\ ReadBytes(NextN(l', Len(l'.buf)).l) = ReadBytes(l')
        /\ Last(ReadBack(l').rs) =
              (IF l.source = <<>> THEN EOFRune ELSE DecodeRune(Head(l.source)).r)

\* C19: Emit and Ignore drop the consumed span only: the buffered code points
\* at or after position stay in the buffer in their order, and the Next calls
\* that follow return them, in that order and without reading the source,
\* before the Next call that pulls a new code point.
C19_LookaheadKept == [][C19_LookaheadStep]_vars

\* the code points decoded from the source so far
DecodedSoFar == Decoded(SubSeq(input, 1, Len(input) - Len(l.source)))

C20_Accounted ==
    /\ l.closed \o l.buf = DecodedSoFar
    /\ ReadBytes(l) = Len(input) - Len(l.source)

\* one step of the property below
C20_CounterStep ==
    ReadBytes(l') # ReadBytes(l) =>
        /\ op'.name \in {"Next", "Peek", "Take"}
        /\ op'.name \in {"Next", "Peek"} =>
              /\ l.position >= Len(l.buf)
              /\ ReadBytes(l') = ReadBytes(l) + 1

\* C20: in every reachable state the spans closed so far (token values and
\* ignored spans), in order, followed by the buffer are the code points
\* decoded from the source so far, and the byte counter is the number of
\* bytes read from the source; the counter changes only in a Next call (one
\* made by the client, by Peek or by Take) that finds no unread buffered
\* code point.
C20_NoInputLost == []C20_Accounted /\ [][C20_CounterStep]_vars

(***************************************************************************)
(* Properties of the driver-level specification (SpecDrive).               *)
(***************************************************************************)
PullMode == Mode = "NextToken"
BatchMode == Mode = "NextTokens"

\* what the calls returned, in order
Rets == [i \in 1..Len(got) |-> got[i].ret]

\* the tokens a sequence of non-nil pointers points to
TokensOf(ptrs) == [i \in 1..Len(ptrs) |-> ptrs[i][1]]

NonNil(ptrs) == SelectSeq(ptrs, LAMBDA q : q # NilToken)

RECURSIVE Flatten(_)
Flatten(batches) ==
    IF batches = <<>> THEN <<>> ELSE Head(batches) \o Flatten(Tail(batches))

\* the last call is the first one that returned the end value
FirstEnd(rets, end) ==
    /\ rets # <<>>
    /\ Last(rets) = end
    /\ \A i \in 1..(Len(rets) - 1) : rets[i] # end

\* Scan on a fresh engine over the same input, start state and handlers
PushRun == Scan(New(input, l.startState, "nil", l.ErrorHandler, l.slack))

\* C1: the tokens NextToken returned up to its first nil are, in order, the
\* tokens Scan delivers on a fresh engine over the same input and start
\* state (and Scan returns).
C1_PullEqualsPush ==
    (PullMode /\ FirstEnd(Rets, NilToken)) =>
        /\ PushRun.returned
        /\ PushRun.l.delivered = TokensOf(Front(Rets))

\* three tokens, two of them from one state invocation, then the end marker
C1_Witness ==
    /\ PullMode
    /\ FirstEnd(Rets, NilToken)
    /\ Len(got) = 4
    /\ l.ninv = 3
    /\ \A i \in 1..3 : got[i].ret[1].Value # <<>>

\* C2: the batches NextTokens returned before its first end-marker batch,
\* concatenated, are the tokens Scan delivers on a fresh engine over the
\* same input and start state: no emitted token is dropped.
C2_BatchesEqualPush ==
    (BatchMode /\ FirstEnd(Rets, <<NilToken>>)) =>
        /\ PushRun.returned
        /\ PushRun.l.delivered = TokensOf(Flatten(Front(Rets)))

\* one step of the property below
C3_OneInvocationStep ==
    op'.name = "NextTokens" =>
        /\ l'.ninv = l.ninv + 1
        /\ l'.lastInv = (IF l.hasNext THEN l.nextState ELSE l.startState)
        /\ l.hasNext => l.nextState = l.lastNext
        /\ ~l'.panicked =>
              /\ got' = Append(got, Returned("NextTokens", Last(got').ret))
              /\ IF l'.lastNext = NilState
                 THEN /\ Last(got').ret = <<NilToken>>
                      /\ l'.hasNext = FALSE
                      /\ l'.nextState = l'.startState
                      /\ l'.lastTokens = <<>>
                 ELSE /\ l'.hasNext
                      /\ l'.nextState = l'.lastNext
                      /\ \A i \in 1..Len(Last(got').ret) : Last(got').ret[i] # NilToken

C4_QueuedFirstStep ==
    /\ (op'.name = "NextToken" /\ l.hasNext /\ Len(l.lastTokens) > 0) =>
          /\ ~l'.panicked
          /\ got' = Append(got, Returned("NextToken", Head(l.lastTokens)))
          /\ l'.lastTokens = Tail(l.lastTokens)
          /\ l'.ninv = l.ninv
          /\ l'.buf = l.buf
          /\ l'.start = l.start
          /\ l'.position = l.position
          /\ l'.rewind = l.rewind
          /\ l'.readbytes = l.readbytes
          /\ l'.source = l.source
    /\ (op'.name = "NextToken" /\ ~l'.panicked) =>
          TokensOf(NonNil(Rets') \o NonNil(l'.lastTokens)) = l'.delivered

\* C4: a NextToken call made while tokens are queued returns the head of the
\* queue and removes it, invokes no state function and leaves the buffer, the
\* cursors, the rewind stack, the source and the byte counter alone; and the
\* tokens returned so far followed by the queued ones are the tokens emitted
\* so far, in emission order.
C4_QueuedTokensFirst == [][C4_QueuedFirstStep]_vars

\* two tokens returned by two calls after a single state invocation
C4_Witness ==
    /\ PullMode
    /\ Len(got) = 2
    /\ l.ninv = 1
    /\ got[1].ret # NilToken
    /\ got[2].ret # NilToken
    /\ got[1].ret # got[2].ret

NilCalls == {i \in 1..Len(got) : got[i].ret = NilToken}

\* C5: over any sequence of NextToken calls on one engine the end marker is
\* returned by exactly one call.
C5_EndMarkerOnce == PullMode => Cardinality(NilCalls) <= 1

\* C5, amended: the end marker is queued only when the chain has ended, behind
\* the tokens still queued (so the queue holds at most one, as its last
\* element); it is returned after every token emitted, and every NextToken
\* call after that returns it again.
C5_EndMarkerAfterTokens ==
    PullMode =>
        /\ \A k \in 1..Len(l.lastTokens) :
              l.lastTokens[k] = NilToken =>
                  k = Len(l.lastTokens) /\ l.nextState = NilState
        /\ \A i \in NilCalls :
              /\ l.nextState = NilState
              /\ l.lastTokens = <<>>
              /\ \A j \in i..Len(got) : j \in NilCalls
              /\ \A j \in 1..(i - 1) : j \in NilCalls \/ got[j].ret[1] = l.delivered[j]
              /\ Len(l.delivered) = Len(got) - Cardinality(NilCalls)

\* a token, then the end marker returned by two calls
C5_Witness ==
    /\ PullMode
    /\ Len(got) >= 3
    /\ got[1].ret # NilToken
    /\ Cardinality(NilCalls) >= 2

\* the error value and the handler calls account for every Error call
ErrorsAccounted ==
    IF l.ErrorHandler
    THEN /\ l.errCalls = Len(l.raised)
         /\ l.Err = (IF l.raised = <<>> THEN <<>> ELSE Last(l.raised))
    ELSE /\ l.errCalls = 0
         /\ l.Err = <<>>
         /\ l.raised # <<>> => (l.panicked /\ Len(l.raised) = 1)

\* one step of the property below
C14_ErrorStep ==
    /\ ErrorsAccounted'
    /\ Len(l'.raised) > Len(l.raised) =>
          /\ Len(l'.raised) = Len(l.raised) + 1
          /\ l'.lastInv = "WhitespaceState"
          /\ l'.lastNext = NilState
          /\ l'.panicked = ~l.ErrorHandler
          /\ l.ErrorHandler =>
                /\ l'.Err = Last(l'.raised)
                /\ l'.errCalls = l.errCalls + 1
                /\ got' = Append(got, Last(got'))
                /\ Last(got').call = op'.name
          /\ ~l.ErrorHandler => got' = got
    /\ (op'.name = "NextTokens" /\ l.Err # <<>>) => l'.ninv = l.ninv + 1

RECURSIVE SkipTokens(_, _)
SkipTokens(ev, i) ==
    IF i > Len(ev) THEN 0
    ELSE IF ev[i].kind = "token" THEN SkipTokens(ev, i + 1)
    ELSE i

\* ev is a whole chain of invocations that begins with state: a call of
\* state, handler calls, the return of a state, and the chain of that state;
\* no event when state is nil
RECURSIVE ChainFrom(_, _)
ChainFrom(ev, state) ==
    IF state = NilState THEN ev = <<>>
    ELSE /\ ev # <<>>
         /\ Head(ev) = Event("call", state, NilToken)
         /\ SkipTokens(ev, 2) # 0
         /\ ev[SkipTokens(ev, 2)].kind = "ret"
         /\ ChainFrom(SubSeq(ev, SkipTokens(ev, 2) + 1, Len(ev)),
                      ev[SkipTokens(ev, 2)].state)

\* the tokens of the handler calls of ev, in order
EventTokens(ev) ==
    TokensOf([i \in 1..Len(SelectSeq(ev, LAMBDA x : x.kind = "token")) |->
                 SelectSeq(ev, LAMBDA x : x.kind = "token")[i].tok])

\* one step of the property below
C15_ScanStep ==
    op'.name = "Scan" =>
        /\ l'.TokenHandler = "callback"
        /\ EventTokens(l'.events) = l'.delivered
        /\ l'.panicked => got' = got
        /\ ~l'.panicked =>
              /\ got' = <<Returned("Scan", <<>>)>>
              /\ ChainFrom(l'.events, l.startState)
              /\ l'.ninv > 0 => l'.lastNext = NilState
        /\ l.startState = NilState =>
              l' = [l EXCEPT !.TokenHandler = "callback"]

\* a Scan that has neither returned nor panicked is one that is still running
\* after MaxInvoke state invocations, the last of which returned a state,
\* whether or not the source is exhausted
C15_NoStopAtEnd ==
    (op.name = "New" /\ ~Scan(l).returned /\ ~Scan(l).l.panicked) =>
        /\ Scan(l).l.ninv = MaxInvoke
        /\ Scan(l).l.lastNext # NilState

\* C15: Scan calls the start state and then each state the previous call
\* returned; the callback is called for each Emit between the call and the
\* return of the state function that emits, in emission order; Scan returns
\* exactly when a state function returns nil (at once, with no call, when
\* there is no start state), and it goes on past the end of the input as
\* long as the states return a state.
C15_ScanDrives == [][C15_ScanStep]_vars /\ []C15_NoStopAtEnd

\* Scan returned after three invocations, the first of which emitted two tokens
C15_Witness ==
    /\ op.name = "Scan"
    /\ got # <<>>
    /\ l.ninv = 3
    /\ Len(l.events) >= 9
    /\ l.events[2].kind = "token"
    /\ l.events[3].kind = "token"
    /\ l.events[4].kind = "ret"

\* C16: what the client was handed does not change: every batch NextTokens
\* returned, read through the slice the client holds, has the elements (kind
\* and value of each token) it had when it was returned, whatever the engine
\* did since; and every token returned by NextToken or given to the Scan
\* callback is the token that was emitted.
C16_HandedTokensStable ==
    /\ BatchMode =>
          /\ Len(l.handed) = Len(got)
          /\ \A i \in 1..Len(got) : View(l, l.handed[i]) = got[i].ret
    /\ PullMode => TokensOf(NonNil(Rets)) = SubSeq(l.delivered, 1, Len(NonNil(Rets)))
    /\ Mode = "Scan" => EventTokens(l.events) = l.delivered

\* C17: every batch NextTokens returns has at least one element: one or more
\* tokens, or the end marker alone.
C17_BatchNeverEmpty ==
    BatchMode =>
        \A i \in 1..Len(got) :
            /\ Len(got[i].ret) >= 1
            /\ \/ got[i].ret = <<NilToken>>
               \/ \A j \in 1..Len(got[i].ret) : got[i].ret[j] # NilToken

\* the tokens Test_MultipleTokens expects
ScenarioTokens ==
    << Token(NumberToken, <<49, 50, 51>>),
       Token(OpToken, <<46>>),
       Token(IdentToken, <<104, 101, 108, 108, 111>>),
       Token(NumberToken, <<54, 55, 53>>),
       Token(OpToken, <<46>>),
       Token(IdentToken, <<119, 111, 114, 108, 100>>) >>

\* C18: Scan over "123.hello  675.world" with NumberState as start state
\* delivers Number "123", Op ".", Ident "hello", Number "675", Op ".",
\* Ident "world", in that order and nothing else, then returns, and no error
\* is recorded.
C18_ScenarioB ==
    (op.name = "Scan" /\ input = ScenarioInput /\ l.startState = "NumberState") =>
        /\ ~l.panicked
        /\ got = <<Returned("Scan", <<>>)>>
        /\ l.delivered = ScenarioTokens
        /\ l.Err = <<>>
        /\ l.raised = <<>>
        /\ l.errCalls = 0

\* the scan of the scenario has run and delivered its six tokens
C18_Witness ==
    /\ op.name = "Scan"
    /\ input = ScenarioInput
    /\ l.startState = "NumberState"
    /\ Len(l.delivered) = 6
    /\ l.source = <<>>
    /\ l.ninv = 6

====
